---- MODULE Spec2Model ----
(***************************************************************************)
(* A model of blog_writer.py: the Streamlit entry point `main`, the two    *)
(* orchestration strategies (langchain_blog_post, crewai_blog_post), the   *)
(* three stage functions and the result normaliser clean_crewai_output.    *)
(*                                                                         *)
(* The language model, the ReAct loop of AgentExecutor and the sequential  *)
(* process of Crew.kickoff are the environment of the program: the model   *)
(* lets the language model answer anything (a tool call with any payload,  *)
(* a malformed output, a final answer, a transport error) and gives the    *)
(* two frameworks the behaviour the source selects through its arguments   *)
(* (handle_parsing_errors=True, tasks=[...], context=[...]).               *)
(***************************************************************************)
EXTENDS Integers, Sequences, FiniteSets, TLC

VARIABLES
    apiKey,         \* whether OPENAI_API_KEY is set for this process
    pc,             \* position of the script / of main
    framework,      \* the st.radio choice of the current run
    ui,             \* what main has rendered in the current run
    llmCalled,      \* whether any request reached the language model
    taskState,      \* Crew: state of each task
    taskOut,        \* Crew: output text of each completed task
    crewLog,        \* Crew: the tasks in the order they were started
    result,         \* the raw value the orchestrating framework returned
    blog_post,      \* the value handed to main (or the normaliser's output)
    lcIter,         \* AgentExecutor: iterations used
    invoked,        \* AgentExecutor: tool calls that returned an observation
    parseErrors,    \* AgentExecutor: malformed reasoning outputs handled
    abortCause,     \* what raised out of the run, "none" if nothing did
    lastCall,       \* the tool call that raised, if one did
    stageCalls,     \* invocations of stage functions in the current run
    stageRequests   \* chain.invoke requests issued by stage functions

vars == <<apiKey, pc, framework, ui, llmCalled, taskState, taskOut, crewLog,
          result, blog_post, lcIter, invoked, parseErrors, abortCause,
          lastCall, stageCalls, stageRequests>>

----------------------------------------------------------------------------
(* Bounds of the model *)

\* Iteration budget of the reasoning loop (the engine's own stop policy).
MaxIterations == 4

----------------------------------------------------------------------------
(* Python values *)

\* Texts are sequences of tokens.
LLMTexts == {<<"textA">>, <<"textB">>}

StrV(t) == [type |-> "str", val |-> t]
NoneV == [type |-> "none"]
IntV(n) == [type |-> "int", n |-> n]
\* An object that is neither str nor dict and whose __str__ yields its raw text.
ObjV(t) == [type |-> "obj", raw |-> t]
DictV(d) == [type |-> "dict", items |-> d]
\* blog_post / result before anything was assigned.
Unset == [type |-> "unset"]

IsStr(v) == v.type = "str"
IsDict(v) == v.type = "dict"

DictKeys == {"raw", "tasks_output", "token_usage"}
KeyOrder == <<"raw", "tasks_output", "token_usage">>

LeafValues == {StrV(t) : t \in LLMTexts} \cup {NoneV, IntV(0)}

Dicts == UNION {[ks -> LeafValues] : ks \in SUBSET DictKeys}

PyValues ==
    LeafValues \cup {ObjV(t) : t \in LLMTexts} \cup {DictV(d) : d \in Dicts}

\* repr() of a leaf value
PyRepr(v) ==
    CASE v.type = "str" -> <<"'">> \o v.val \o <<"'">>
      [] v.type = "none" -> <<"None">>
      [] v.type = "int" -> <<ToString(v.n)>>
      [] OTHER -> <<"<object>">>

RECURSIVE ReprItems(_, _, _)
ReprItems(d, i, first) ==
    IF i > Len(KeyOrder) THEN <<>>
    ELSE LET k == KeyOrder[i] IN
         IF k \in DOMAIN d
         THEN (IF first THEN <<>> ELSE <<", ">>)
              \o <<"'", k, "'", ": ">> \o PyRepr(d[k])
              \o ReprItems(d, i + 1, FALSE)
         ELSE ReprItems(d, i + 1, first)

\* str(v)
PyStr(v) ==
    CASE v.type = "str" -> v.val
      [] v.type = "none" -> <<"None">>
      [] v.type = "int" -> <<ToString(v.n)>>
      [] v.type = "obj" -> v.raw
      [] v.type = "dict" -> <<"{">> \o ReprItems(v.items, 1, TRUE) \o <<"}">>
      [] OTHER -> <<"<object>">>

\* dict.get(key, default)
DictGet(d, key, default) == IF key \in DOMAIN d THEN d[key] ELSE default

\* Variant: the dict branch left out.
clean_crewai_output_no_dict(r) ==
    IF IsStr(r) THEN r ELSE StrV(PyStr(r))

clean_crewai_output(r) ==
    IF IsStr(r) THEN r
    ELSE IF IsDict(r) THEN DictGet(r.items, "raw", StrV(PyStr(r)))
    ELSE StrV(PyStr(r))

----------------------------------------------------------------------------
(* The language-model client *)

\* Variant: a client that is built without looking for the credential.
ChatOpenAI_lazy(key) == TRUE

\* ChatOpenAI(...): the client is built from the credential in the
\* environment; no api_key argument is passed, and construction raises when
\* the environment holds none.
ChatOpenAI(key) == key

\* What the model client answers to successive requests of one invocation.
Responses == [1..2 -> {"ok", "error"}]

\* Variant: a failed request is sent once more.
ChainInvoke_retry(resp) ==
    IF resp[1] = "error"
    THEN [requests |-> 2, outcome |-> resp[2]]
    ELSE [requests |-> 1, outcome |-> resp[1]]

\* chain.invoke(...).content: one request, whose error propagates.
ChainInvoke(resp) == [requests |-> 1, outcome |-> resp[1]]

generate_outline(resp) == ChainInvoke(resp)

generate_blog_post(resp) == ChainInvoke(resp)

seo_optimizer(resp) == ChainInvoke(resp)

----------------------------------------------------------------------------
(* crewai_blog_post *)

TaskNames == {"outline_task", "writing_task", "seo_task"}

\* Task(..., context=[...])
Context ==
    [outline_task |-> {}, writing_task |-> {"outline_task"},
     seo_task |-> {"writing_task"}]

\* Variants: the task list in another order.
CrewTasks_seo_second == <<"outline_task", "seo_task", "writing_task">>

CrewTasks_writing_first == <<"writing_task", "outline_task", "seo_task">>

\* Crew(tasks=[...]): the list the sequential process walks through.
CrewTasks == <<"outline_task", "writing_task", "seo_task">>

\* Tasks no other task depends on.
TerminalTasks == {t \in TaskNames : \A u \in TaskNames : t \notin Context[u]}

\* Shapes of the value crew.kickoff() returns for a final text t.
KickoffResults(t) ==
    {StrV(t), ObjV(t),
     DictV([raw |-> StrV(t), tasks_output |-> IntV(0), token_usage |-> IntV(0)])}

\* Variant: the framework's value returned as it is.
crewai_return_raw(r) == r

\* return clean_crewai_output(result)
crewai_return(r) == clean_crewai_output(r)

----------------------------------------------------------------------------
(* langchain_blog_post *)

ToolNames == {"OutlineGenerator", "BlogWriter", "SEOOptimizer"}

\* Keyword parameters of each stage function besides llm.
Params ==
    [OutlineGenerator |-> {"topic", "audience"},
     BlogWriter |-> {"topic", "audience", "tone", "word_count", "keywords"},
     SEOOptimizer |-> {"text", "keywords"}]

\* Keys each Tool's description tells the loop to send.
DeclaredKeys ==
    [OutlineGenerator |-> {"topic", "audience"},
     BlogWriter |-> {"topic", "audience", "tone", "word_count", "keywords"},
     SEOOptimizer |-> {"text", "keywords"}]

\* The process the instruction handed to agent_executor.invoke asks for.
Instruction == <<"OutlineGenerator", "BlogWriter", "SEOOptimizer">>

\* Variant: parsing errors not handled.
handle_parsing_errors_off == FALSE

\* AgentExecutor(handle_parsing_errors=True)
handle_parsing_errors == TRUE

\* Key sets of the JSON objects the loop may send as Action Input.
PayloadKeySets ==
    {Params[t] : t \in ToolNames}
    \cup {Params[t] \cup {k} : t \in ToolNames, k \in {"llm", "style"}}
    \cup {Params[t] \ {k} : t \in ToolNames, k \in {"topic", "keywords"}}

\* An Action Input: a JSON object (its key set), or text json.loads rejects,
\* or JSON that is no object.
Payloads ==
    {[kind |-> "object", keys |-> ks] : ks \in PayloadKeySets}
    \cup {[kind |-> "not_json", keys |-> {}], [kind |-> "not_object", keys |-> {}]}

\* Variant: a call that tolerates keys beyond the parameters.
ToolArgsOk_superset(tool, payload) ==
    /\ payload.kind = "object"
    /\ Params[tool] \subseteq payload.keys

\* f(**json.loads(x), llm=llm): json.loads must yield a mapping, and the
\* call binds only when the keys are exactly f's parameters besides llm.
ToolArgsOk(tool, payload) ==
    /\ payload.kind = "object"
    /\ payload.keys = Params[tool]

StageFunction(tool, resp) ==
    CASE tool = "OutlineGenerator" -> generate_outline(resp)
      [] tool = "BlogWriter" -> generate_blog_post(resp)
      [] tool = "SEOOptimizer" -> seo_optimizer(resp)

StopText == <<"Agent stopped due to iteration limit or time limit.">>

NoCall == [tool |-> "none", payload |-> [kind |-> "none", keys |-> {}]]

----------------------------------------------------------------------------
(* The script and main *)

NoUI == [written |-> FALSE, download |-> FALSE, errors |-> 0]

FreshRun ==
    /\ taskState = [t \in TaskNames |-> "Pending"]
    /\ taskOut = [t \in TaskNames |-> <<>>]
    /\ crewLog = <<>>
    /\ result = Unset
    /\ blog_post = Unset
    /\ lcIter = 0
    /\ invoked = <<>>
    /\ parseErrors = 0
    /\ lastCall = NoCall
    /\ stageCalls = 0
    /\ stageRequests = 0

Init ==
    /\ apiKey \in BOOLEAN
    /\ pc = "load"
    /\ framework = "none"
    /\ ui = NoUI
    /\ llmCalled = FALSE
    /\ abortCause = "none"
    /\ FreshRun

crewVars == <<taskState, taskOut, crewLog>>
chainVars == <<lcIter, invoked, parseErrors, lastCall, stageCalls, stageRequests>>

\* Module level: load_dotenv(), os.getenv, llm = ChatOpenAI(...)
LoadModule ==
    /\ pc = "load"
    /\ pc' = IF ChatOpenAI(apiKey) THEN "idle" ELSE "config_error"
    /\ UNCHANGED <<apiKey, framework, ui, llmCalled, crewVars, result,
                   blog_post, chainVars, abortCause>>

\* st.button pressed: the script reruns, get_llm builds the client and the
\* selected orchestrator is entered.
ClickGenerate(fw) ==
    /\ pc \in {"idle", "shown", "error"}
    /\ framework' = fw
    /\ ui' = NoUI
    /\ taskState' = [t \in TaskNames |-> "Pending"]
    /\ taskOut' = [t \in TaskNames |-> <<>>]
    /\ crewLog' = <<>>
    /\ result' = Unset
    /\ blog_post' = Unset
    /\ lcIter' = 0
    /\ invoked' = <<>>
    /\ parseErrors' = 0
    /\ lastCall' = NoCall
    /\ stageCalls' = 0
    /\ stageRequests' = 0
    /\ IF ChatOpenAI(apiKey)
       THEN /\ pc' = (IF fw = "LangChain" THEN "linear" ELSE "crew")
            /\ abortCause' = "none"
       ELSE /\ pc' = "raised"
            /\ abortCause' = "config"
    /\ UNCHANGED <<apiKey, llmCalled>>

\* st.subheader, st.write(blog_post), st.download_button(data=blog_post)
MainDisplay ==
    /\ pc = "returned"
    /\ ui' = [ui EXCEPT !.written = TRUE, !.download = TRUE]
    /\ pc' = "shown"
    /\ UNCHANGED <<apiKey, framework, llmCalled, crewVars, result, blog_post,
                   chainVars, abortCause>>

\* except Exception as e: st.error(...)
MainExcept ==
    /\ pc = "raised"
    /\ ui' = [ui EXCEPT !.errors = @ + 1]
    /\ pc' = "error"
    /\ UNCHANGED <<apiKey, framework, llmCalled, crewVars, result, blog_post,
                   chainVars, abortCause>>

----------------------------------------------------------------------------
(* crew.kickoff(): the sequential process *)

\* The next task of the list starts once the one before it has completed.
CrewStartTask ==
    /\ pc = "crew"
    /\ \A t \in TaskNames : taskState[t] # "Running"
    /\ Len(crewLog) < Len(CrewTasks)
    /\ LET t == CrewTasks[Len(crewLog) + 1] IN
         /\ taskState' = [taskState EXCEPT ![t] = "Running"]
         /\ crewLog' = Append(crewLog, t)
    /\ llmCalled' = TRUE
    /\ UNCHANGED <<apiKey, pc, framework, ui, taskOut, result, blog_post,
                   chainVars, abortCause>>

\* The running task's agent produces the task's output.
CrewCompleteTask(text) ==
    /\ pc = "crew"
    /\ \E t \in TaskNames :
         /\ taskState[t] = "Running"
         /\ taskState' = [taskState EXCEPT ![t] = "Complete"]
         /\ taskOut' = [taskOut EXCEPT ![t] = text]
    /\ UNCHANGED <<apiKey, pc, framework, ui, llmCalled, crewLog, result,
                   blog_post, chainVars, abortCause>>

\* The running task raises: kickoff raises, and so does crewai_blog_post,
\* which wraps the call in no try.
CrewFailTask ==
    /\ pc = "crew"
    /\ \E t \in TaskNames :
         /\ taskState[t] = "Running"
         /\ taskState' = [taskState EXCEPT ![t] = "Failed"]
    /\ abortCause' = "task"
    /\ pc' = "raised"
    /\ UNCHANGED <<apiKey, framework, ui, llmCalled, taskOut, crewLog, result,
                   blog_post, chainVars>>

\* Every task of the list is complete: kickoff returns the last task's
\* output and crewai_blog_post returns it normalised.
CrewReturn ==
    /\ pc = "crew"
    /\ \A t \in TaskNames : taskState[t] = "Complete"
    /\ \E r \in KickoffResults(taskOut[CrewTasks[Len(CrewTasks)]]) :
         /\ result' = r
         /\ blog_post' = crewai_return(r)
    /\ pc' = "returned"
    /\ UNCHANGED <<apiKey, framework, ui, llmCalled, crewVars, chainVars,
                   abortCause>>

----------------------------------------------------------------------------
(* agent_executor.invoke(): the reasoning loop *)

InLoop == pc = "linear" /\ lcIter < MaxIterations

\* The loop's own request to the model fails: the error leaves the loop.
LinearModelError ==
    /\ InLoop
    /\ llmCalled' = TRUE
    /\ abortCause' = "agent_model"
    /\ pc' = "raised"
    /\ UNCHANGED <<apiKey, framework, ui, crewVars, result, blog_post, chainVars>>

\* The model's output cannot be parsed as an action or a final answer.
LinearParseError ==
    /\ InLoop
    /\ llmCalled' = TRUE
    /\ IF handle_parsing_errors
       THEN /\ parseErrors' = parseErrors + 1
            /\ lcIter' = lcIter + 1
            /\ UNCHANGED <<pc, abortCause>>
       ELSE /\ abortCause' = "parse"
            /\ pc' = "raised"
            /\ UNCHANGED <<parseErrors, lcIter>>
    /\ UNCHANGED <<apiKey, framework, ui, crewVars, result, blog_post,
                   invoked, lastCall, stageCalls, stageRequests>>

\* The model names a tool that is none of the three: the loop answers that
\* the tool is not valid and goes on.
LinearInvalidTool ==
    /\ InLoop
    /\ llmCalled' = TRUE
    /\ lcIter' = lcIter + 1
    /\ UNCHANGED <<apiKey, pc, framework, ui, crewVars, result, blog_post,
                   invoked, parseErrors, abortCause, lastCall, stageCalls,
                   stageRequests>>

\* The model asks for a tool with an Action Input; the tool's lambda runs.
LinearToolCall(tool, payload, resp) ==
    /\ InLoop
    /\ llmCalled' = TRUE
    /\ IF ~ToolArgsOk(tool, payload)
       THEN /\ abortCause' = "tool"
            /\ lastCall' = [tool |-> tool, payload |-> payload]
            /\ pc' = "raised"
            /\ UNCHANGED <<lcIter, invoked, stageCalls, stageRequests>>
       ELSE LET r == StageFunction(tool, resp) IN
            /\ stageCalls' = stageCalls + 1
            /\ stageRequests' = stageRequests + r.requests
            /\ IF r.outcome = "error"
               THEN /\ abortCause' = "stage_model"
                    /\ lastCall' = [tool |-> tool, payload |-> payload]
                    /\ pc' = "raised"
                    /\ UNCHANGED <<lcIter, invoked>>
               ELSE /\ invoked' = Append(invoked, [tool |-> tool, keys |-> payload.keys])
                    /\ lcIter' = lcIter + 1
                    /\ UNCHANGED <<pc, abortCause, lastCall>>
    /\ UNCHANGED <<apiKey, framework, ui, crewVars, result, blog_post, parseErrors>>

\* The model declares a final answer: invoke returns, and
\* langchain_blog_post returns result['output'].
LinearFinish(text) ==
    /\ InLoop
    /\ llmCalled' = TRUE
    /\ result' = DictV([output |-> StrV(text)])
    /\ blog_post' = result'.items["output"]
    /\ pc' = "returned"
    /\ UNCHANGED <<apiKey, framework, ui, crewVars, chainVars, abortCause>>

\* The iteration budget is used up: the loop stops with its own message.
LinearIterLimit ==
    /\ pc = "linear"
    /\ lcIter >= MaxIterations
    /\ result' = DictV([output |-> StrV(StopText)])
    /\ blog_post' = result'.items["output"]
    /\ pc' = "returned"
    /\ UNCHANGED <<apiKey, framework, ui, llmCalled, crewVars, chainVars,
                   abortCause>>

LinearStep ==
    \/ LinearModelError
    \/ LinearParseError
    \/ LinearInvalidTool
    \/ \E tool \in ToolNames, payload \in Payloads, resp \in Responses :
         LinearToolCall(tool, payload, resp)
    \/ \E text \in LLMTexts : LinearFinish(text)
    \/ LinearIterLimit

CrewStep ==
    \/ CrewStartTask
    \/ \E text \in LLMTexts : CrewCompleteTask(text)
    \/ CrewFailTask
    \/ CrewReturn

Next ==
    \/ LoadModule
    \/ \E fw \in {"LangChain", "CrewAI"} : ClickGenerate(fw)
    \/ CrewStep
    \/ LinearStep
    \/ MainDisplay
    \/ MainExcept

Spec == Init /\ [][Next]_vars

\* A run that has started is carried to its end: nothing in the script
\* waits on anything but the call in progress.
FairSpec == Spec /\ WF_vars(CrewStep \/ LinearStep \/ MainDisplay \/ MainExcept)

----------------------------------------------------------------------------
(* clean_crewai_output on its own: any value in, the function applied once *)

NormInit ==
    /\ apiKey = TRUE
    /\ pc = "normalise"
    /\ framework = "none"
    /\ ui = NoUI
    /\ llmCalled = FALSE
    /\ abortCause = "none"
    /\ taskState = [t \in TaskNames |-> "Pending"]
    /\ taskOut = [t \in TaskNames |-> <<>>]
    /\ crewLog = <<>>
    /\ result \in PyValues
    /\ blog_post = Unset
    /\ lcIter = 0
    /\ invoked = <<>>
    /\ parseErrors = 0
    /\ lastCall = NoCall
    /\ stageCalls = 0
    /\ stageRequests = 0

NormApply ==
    /\ pc = "normalise"
    /\ blog_post' = clean_crewai_output(result)
    /\ pc' = "normalised"
    /\ UNCHANGED <<apiKey, framework, ui, llmCalled, crewVars, result,
                   chainVars, abortCause>>

NormSpec == NormInit /\ [][NormApply]_vars

----------------------------------------------------------------------------
(* Properties *)

\* C1: no task leaves Pending until every task of its context list is
\* Complete, so writing never starts before the outline is complete and the
\* SEO task never starts before writing is complete.
C1_DependencyOrder ==
    \A t \in TaskNames :
        taskState[t] # "Pending" =>
            \A d \in Context[t] : taskState[d] = "Complete"

C1_Witness ==
    /\ taskState["seo_task"] = "Running"
    /\ taskState["writing_task"] = "Complete"

\* C2: once the outline task has failed, the writing and SEO tasks are
\* never executed; a failure of any task ends the run by raising, with no
\* result returned to main, and no later task is started.
C2_FailFast ==
    /\ taskState["outline_task"] = "Failed" =>
         /\ taskState["writing_task"] = "Pending"
         /\ taskState["seo_task"] = "Pending"
         /\ crewLog = <<"outline_task">>
    /\ (\E t \in TaskNames : taskState[t] = "Failed") =>
         /\ pc \in {"raised", "error"}
         /\ abortCause = "task"
         /\ result = Unset
         /\ blog_post = Unset
         /\ ~ui.written
         /\ \A u \in TaskNames : taskState[u] # "Running"
         /\ taskState[crewLog[Len(crewLog)]] = "Failed"

C2_Witness ==
    /\ taskState["outline_task"] = "Failed"
    /\ pc = "error"

\* C3: a crew run that succeeds has run outline, writing and SEO in that
\* order, has the SEO task as its only terminal task, and hands main the
\* SEO task's output as a string, not the outline and not the draft.
C3_FinalOnly ==
    (framework = "CrewAI" /\ pc \in {"returned", "shown"}) =>
        /\ crewLog = <<"outline_task", "writing_task", "seo_task">>
        /\ TerminalTasks = {"seo_task"}
        /\ IsStr(blog_post)
        /\ blog_post = StrV(taskOut["seo_task"])
        /\ (taskOut["outline_task"] # taskOut["seo_task"] =>
                blog_post # StrV(taskOut["outline_task"]))
        /\ (taskOut["writing_task"] # taskOut["seo_task"] =>
                blog_post # StrV(taskOut["writing_task"]))

C3_Witness ==
    /\ framework = "CrewAI"
    /\ pc = "shown"
    /\ IsDict(result)
    /\ taskOut["outline_task"] # taskOut["seo_task"]
    /\ taskOut["writing_task"] # taskOut["seo_task"]

\* C4: a malformed reasoning output never aborts the linear run: the step
\* is counted and the loop goes on; a run with one malformed step ends, and
\* unless a tool call or a model request raises it ends with a text that is
\* returned to main and displayed.
C4_ParseRecovery ==
    /\ [](abortCause # "parse")
    /\ [][(pc = "linear" /\ parseErrors' = parseErrors + 1) => pc' = "linear"]_vars
    /\ []((framework = "LangChain" /\ pc = "shown") =>
            (IsStr(blog_post) /\ ui.written))
    /\ ((pc = "linear" /\ parseErrors = 1)
          ~> (\/ (pc = "shown" /\ IsStr(blog_post))
              \/ abortCause \in {"tool", "stage_model", "agent_model"}))

C4_Witness ==
    /\ framework = "LangChain"
    /\ pc = "shown"
    /\ parseErrors = 1
    /\ blog_post.val \in LLMTexts
    /\ Len(invoked) >= 1

\* C5 (as claimed): a tool call whose payload has missing or extra keys
\* fails only that call, the loop goes on.
C5_ToolErrorFedBack ==
    (lastCall.payload.kind = "object" /\ ~ToolArgsOk(lastCall.tool, lastCall.payload)
     /\ lastCall.tool \in ToolNames)
        => pc = "linear"

\* C6 (as claimed): a linear run that returns has invoked OutlineGenerator,
\* BlogWriter and SEOOptimizer, in that order, each with its declared keys.
C6_FixedSequence ==
    (framework = "LangChain" /\ pc \in {"returned", "shown"}) =>
        /\ Len(invoked) = Len(Instruction)
        /\ \A i \in DOMAIN invoked :
             /\ invoked[i].tool = Instruction[i]
             /\ invoked[i].keys = DeclaredKeys[invoked[i].tool]

\* C6 (amended): the order of the capabilities is the language model's
\* choice; every invocation that completed received exactly the keys its
\* description declares.
C6_DeclaredKeys ==
    \A i \in DOMAIN invoked :
        /\ invoked[i].tool \in ToolNames
        /\ invoked[i].keys = DeclaredKeys[invoked[i].tool]

C6_Witness ==
    /\ framework = "LangChain"
    /\ pc = "shown"
    /\ Len(invoked) = 2
    /\ invoked[1].tool = "SEOOptimizer"
    /\ invoked[2].tool = "OutlineGenerator"

\* C7: for a dict with a 'raw' key the normaliser returns exactly the value
\* of that key, whatever else the dict carries; for a dict without it, the
\* string rendering of the whole dict.
C7_RawField ==
    (pc = "normalised" /\ IsDict(result)) =>
        IF "raw" \in DOMAIN result.items
        THEN blog_post = result.items["raw"]
        ELSE /\ IsStr(blog_post)
             /\ blog_post.val = PyStr(result)
             /\ Head(blog_post.val) = "{"

C7_Witness ==
    /\ pc = "normalised"
    /\ IsDict(result)
    /\ DOMAIN result.items = DictKeys
    /\ blog_post = StrV(<<"textA">>)

\* C8 (as claimed): the normaliser returns a string for every input.
C8_AlwaysString ==
    pc = "normalised" => IsStr(blog_post)

\* C9: without an API key no request ever reaches the language model: the
\* script stops at the construction of the client, before main can start a
\* generation.
C9_NoKeyNoCall ==
    ~apiKey =>
        /\ ~llmCalled
        /\ pc \in {"load", "config_error"}
        /\ framework = "none"

C9_Witness ==
    /\ ~apiKey
    /\ pc = "config_error"

\* C10: every invocation of a stage function issues exactly one request; an
\* error of a model request ends the run by raising, and main then shows
\* one error message and neither the result nor the download button.
C10_NoRetry ==
    /\ stageRequests = stageCalls
    /\ abortCause \in {"stage_model", "agent_model"} =>
         /\ pc \in {"raised", "error"}
         /\ blog_post = Unset
    /\ pc = "raised" => ui = NoUI
    /\ pc = "error" =>
         ui = [written |-> FALSE, download |-> FALSE, errors |-> 1]

C10_Witness ==
    /\ abortCause = "stage_model"
    /\ pc = "error"
    /\ stageCalls = 2
    /\ lastCall.tool = "SEOOptimizer"

====
